---- MODULE Spec2Model ----
(***************************************************************************)
(* JACVS certificate verifier: the FastAPI handler verify_certificate of   *)
(* app.py with its record store and its field parser, and the colon-split  *)
(* field parser of jacvs_ocr_enhanced.py.                                  *)
(*                                                                         *)
(* Text is a sequence of one-character strings, so that Python's split,    *)
(* strip and `in` are computed character by character.                     *)
(***************************************************************************)
EXTENDS Integers, Sequences, FiniteSets, TLC

(***************************************************************************)
(* Bounds of the model.                                                    *)
(***************************************************************************)
\* number of /verify requests in flight
NReq == 2
\* generated OCR texts are concatenations of at most MaxPieces pieces
MaxPieces == 4
\* OCR confidences range over 0..MaxConfidence
MaxConfidence == 100

(***************************************************************************)
(* Python string operations.                                               *)
(***************************************************************************)
Whitespace == {" ", "\t", "\r", "\n"}

\* whether sep occurs in s starting at index i
OccursAt(s, sep, i) ==
    /\ i >= 1
    /\ i + Len(sep) - 1 <= Len(s)
    /\ \A k \in 1..Len(sep) : s[i + k - 1] = sep[k]

\* `sep in s`
Contains(sep, s) == \E i \in 1..(Len(s) + 1) : OccursAt(s, sep, i)

\* index of the leftmost occurrence of sep in s, 0 when there is none
Find(s, sep) ==
    LET hits == {i \in 1..Len(s) : OccursAt(s, sep, i)}
    IN  IF hits = {} THEN 0 ELSE CHOOSE i \in hits : \A j \in hits : i <= j

\* s.split(sep): the pieces between the non-overlapping occurrences of sep,
\* found from the left
RECURSIVE Split(_, _)
Split(s, sep) ==
    LET k == Find(s, sep)
    IN  IF k = 0 THEN <<s>>
        ELSE <<SubSeq(s, 1, k - 1)>> \o Split(SubSeq(s, k + Len(sep), Len(s)), sep)

\* xs[-1]
Last(xs) == xs[Len(xs)]

\* s.strip()
Strip(s) ==
    LET keep == {i \in 1..Len(s) : s[i] \notin Whitespace}
    IN  IF keep = {} THEN <<>>
        ELSE LET lo == CHOOSE i \in keep : \A j \in keep : i <= j
                 hi == CHOOSE i \in keep : \A j \in keep : i >= j
             IN  SubSeq(s, lo, hi)

\* d.get(key, '') on a dict of strings
Get(d, key) == IF key \in DOMAIN d THEN d[key] ELSE <<>>

(***************************************************************************)
(* Literals of the source.                                                 *)
(***************************************************************************)
NL == <<"\n">>
Colon == <<":">>
Sp == <<" ">>
KwNameColon == <<"N","a","m","e",":">>
KwRollNo == <<"R","o","l","l"," ","N","o">>
KwCertificateID == <<"C","e","r","t","i","f","i","c","a","t","e"," ","I","D">>
KwName == <<"N","a","m","e">>
KwRoll == <<"R","o","l","l">>
KwCertID == <<"C","e","r","t"," ","I","D">>
JohnDoe == <<"J","o","h","n"," ","D","o","e">>
JaneSmith == <<"J","a","n","e"," ","S","m","i","t","h">>
RU12345 == <<"R","U","1","2","3","4","5">>
RU54321 == <<"R","U","5","4","3","2","1">>
CertJohn == <<"R","U","/","U","G","/","2","0","2","3","/","0","0","1">>
CertJane == <<"R","U","/","P","G","/","2","0","2","3","/","0","0","2">>

\* {"name": "", "roll_no": "", "cert_id": ""}
EmptyFields == [name |-> <<>>, roll_no |-> <<>>, cert_id |-> <<>>]
\* {}
EmptyDict == [k \in {} |-> <<>>]

(***************************************************************************)
(* An image is what the OCR engine makes of it: readable gives whether     *)
(* pytesseract.image_to_string returns (text) or raises.                   *)
(***************************************************************************)
Raised(e) == [raised |-> TRUE, exception |-> e]
Returned(v) == [raised |-> FALSE, value |-> v]

(***************************************************************************)
(* app.py process_certificate_ocr: keyword split.                          *)
(***************************************************************************)
\* the loop body, lines 57-62
AppLine(extracted_data, line) ==
    IF Contains(KwNameColon, line)
    THEN [extracted_data EXCEPT !.name = Strip(Last(Split(line, KwNameColon)))]
    ELSE IF Contains(KwRollNo, line)
    THEN [extracted_data EXCEPT !.roll_no = Strip(Last(Split(line, KwRollNo)))]
    ELSE IF Contains(KwCertificateID, line)
    THEN [extracted_data EXCEPT !.cert_id = Strip(Last(Split(line, KwCertificateID)))]
    ELSE extracted_data

RECURSIVE AppLoop(_, _, _)
AppLoop(extracted_data, lines, i) ==
    IF i > Len(lines) THEN extracted_data
    ELSE AppLoop(AppLine(extracted_data, lines[i]), lines, i + 1)

AppResult(extracted_data, text) ==
    [extracted_data |-> extracted_data, ocr_confidence |-> 80, full_text |-> text]

app_process_certificate_ocr(image) ==
    IF ~image.readable THEN Raised("TesseractError")
    ELSE Returned(AppResult(AppLoop(EmptyFields, Split(image.text, NL), 1), image.text))

(***************************************************************************)
(* jacvs_ocr_enhanced.py process_certificate_ocr: colon split.             *)
(***************************************************************************)
\* mutant: the name is everything after the first colon, split(":", 1)[-1]
EnhLineFirstColon(extracted_data, line) ==
    LET line_clean == Strip(line)
        after(s) == IF Contains(Colon, s)
                    THEN SubSeq(s, Find(s, Colon) + 1, Len(s)) ELSE s
    IN  IF Contains(KwName, line_clean)
        THEN [extracted_data EXCEPT !.name = Strip(after(line_clean))]
        ELSE IF Contains(KwRoll, line_clean) \/ Contains(KwRollNo, line_clean)
        THEN [extracted_data EXCEPT !.roll_no = Strip(Last(Split(line_clean, Colon)))]
        ELSE IF Contains(KwCertificateID, line_clean) \/ Contains(KwCertID, line_clean)
        THEN [extracted_data EXCEPT !.cert_id = Strip(Last(Split(line_clean, Colon)))]
        ELSE extracted_data

\* the loop body, lines 23-30
EnhLine(extracted_data, line) ==
    LET line_clean == Strip(line)
    IN  IF Contains(KwName, line_clean)
        THEN [extracted_data EXCEPT !.name = Strip(Last(Split(line_clean, Colon)))]
        ELSE IF Contains(KwRoll, line_clean) \/ Contains(KwRollNo, line_clean)
        THEN [extracted_data EXCEPT !.roll_no = Strip(Last(Split(line_clean, Colon)))]
        ELSE IF Contains(KwCertificateID, line_clean) \/ Contains(KwCertID, line_clean)
        THEN [extracted_data EXCEPT !.cert_id = Strip(Last(Split(line_clean, Colon)))]
        ELSE extracted_data

RECURSIVE EnhLoop(_, _, _)
EnhLoop(extracted_data, lines, i) ==
    IF i > Len(lines) THEN extracted_data
    ELSE EnhLoop(EnhLine(extracted_data, lines[i]), lines, i + 1)

EnhResult(extracted_data, text) ==
    [extracted_data |-> extracted_data, ocr_confidence |-> 85, full_text |-> text]

\* the except branch, lines 39-45
EnhFailure(e) ==
    [extracted_data |-> EmptyDict, ocr_confidence |-> 0, full_text |-> <<>>, error |-> e]

enhanced_process_certificate_ocr(image) ==
    IF ~image.readable THEN Returned(EnhFailure("TesseractError"))
    ELSE Returned(EnhResult(EnhLoop(EmptyFields, Split(image.text, NL), 1), image.text))

(***************************************************************************)
(* The record store, app.py lines 21-45.                                   *)
(***************************************************************************)
\* the two rows init_db inserts
SeedRows ==
    { [name |-> JohnDoe, roll_no |-> RU12345, cert_id |-> CertJohn],
      [name |-> JaneSmith, roll_no |-> RU54321, cert_id |-> CertJane] }

\* fetchone() of SELECT roll_no, cert_id ... WHERE name=?  (name is the primary
\* key and TEXT compares byte for byte); None is found = FALSE
NoneRow == [found |-> FALSE, roll_no |-> <<>>, cert_id |-> <<>>]

\* mutant: the name is matched as a substring of the stored name (LIKE '%name%')
query_db_like(rows, name) ==
    LET hits == {row \in rows : Contains(name, row.name)}
    IN  IF hits = {} THEN NoneRow
        ELSE LET row == CHOOSE row \in hits : TRUE
             IN  [found |-> TRUE, roll_no |-> row.roll_no, cert_id |-> row.cert_id]

query_db(rows, name) ==
    LET hits == {row \in rows : row.name = name}
    IN  IF hits = {} THEN NoneRow
        ELSE LET row == CHOOSE row \in hits : TRUE
             IN  [found |-> TRUE, roll_no |-> row.roll_no, cert_id |-> row.cert_id]

(***************************************************************************)
(* The decision procedure of verify_certificate, app.py lines 93-123, on   *)
(* a verdict [anomalies, confidence_score, status, recommendation].        *)
(***************************************************************************)
AnomalyMismatch == "Mismatch in Roll No or Certificate ID"
AnomalyNotFound == "Name not found in records"
AnomalyLowConfidence == "Low OCR confidence - blurry image?"

\* lines 93-96
InitialVerdict(result) ==
    [anomalies |-> <<>>,
     confidence_score |-> result.ocr_confidence,
     status |-> "Valid",
     recommendation |-> "Proceed with verification."]

Min(a, b) == IF a <= b THEN a ELSE b

\* lines 98-109 with the mismatch test, the Caution status and the Caution
\* clamp left open, for the mutants below
BranchWith(v, row, mismatch, caution, clamp) ==
    IF row.found
    THEN IF mismatch
         THEN [anomalies |-> Append(v.anomalies, AnomalyMismatch),
               confidence_score |-> Min(v.confidence_score, clamp),
               status |-> caution,
               recommendation |-> "Manual review recommended."]
         ELSE v
    ELSE [anomalies |-> Append(v.anomalies, AnomalyNotFound),
          confidence_score |-> Min(v.confidence_score, 30),
          status |-> "Forged",
          recommendation |-> "Document appears invalid."]

\* mutant: the mismatch branch forgets to set the status
BranchVerdictKeepsStatus(v, row, roll, cert) ==
    BranchWith(v, row, row.roll_no # roll \/ row.cert_id # cert, v.status, 60)

\* mutant: `and` for `or` in the mismatch test
BranchVerdictAnd(v, row, roll, cert) ==
    BranchWith(v, row, row.roll_no # roll /\ row.cert_id # cert, "Caution", 60)

\* mutant: the Caution clamp is 75
BranchVerdictClamp75(v, row, roll, cert) ==
    BranchWith(v, row, row.roll_no # roll \/ row.cert_id # cert, "Caution", 75)

\* lines 98-109
BranchVerdict(v, row, roll, cert) ==
    IF row.found
    THEN IF row.roll_no # roll \/ row.cert_id # cert
         THEN [anomalies |-> Append(v.anomalies, AnomalyMismatch),
               confidence_score |-> Min(v.confidence_score, 60),
               status |-> "Caution",
               recommendation |-> "Manual review recommended."]
         ELSE v
    ELSE [anomalies |-> Append(v.anomalies, AnomalyNotFound),
          confidence_score |-> Min(v.confidence_score, 30),
          status |-> "Forged",
          recommendation |-> "Document appears invalid."]

\* mutant: `<=` for `<`
LowConfidenceVerdictLe(v) ==
    IF v.confidence_score <= 70
    THEN [v EXCEPT !.anomalies = Append(v.anomalies, AnomalyLowConfidence)]
    ELSE v

\* lines 111-112
LowConfidenceVerdict(v) ==
    IF v.confidence_score < 70
    THEN [v EXCEPT !.anomalies = Append(v.anomalies, AnomalyLowConfidence)]
    ELSE v

\* lines 114-123: the 200 response
Report(v, result, hash) ==
    [status_code |-> 200,
     content |-> [status |-> v.status,
                  confidence_score |-> v.confidence_score,
                  recommendation |-> v.recommendation,
                  anomalies |-> v.anomalies,
                  extracted_data |-> result.extracted_data,
                  document_hash |-> hash,
                  full_text |-> result.full_text]]

\* JSONResponse(status_code=..., content={"error": ...})
ErrorResponse(code, message) == [status_code |-> code, content |-> [error |-> message]]

(***************************************************************************)
(* Uploads.  An upload carries its content type (None when the part has    *)
(* no Content-Type header), whether its bytes decode, and the page images  *)
(* they decode to.  An image is its pixels and what the OCR engine makes   *)
(* of them.                                                                *)
(***************************************************************************)
CtNone == [is_none |-> TRUE, str |-> <<>>]
Ct(s) == [is_none |-> FALSE, str |-> s]
PrefixImage == <<"i","m","a","g","e","/">>
CtPng == Ct(PrefixImage \o <<"p","n","g">>)
CtPdf == Ct(<<"a","p","p","l","i","c","a","t","i","o","n","/","p","d","f">>)
CtPlain == Ct(<<"t","e","x","t","/","p","l","a","i","n">>)

Readable(pixels, text) == [pixels |-> pixels, readable |-> TRUE, text |-> text]
Unreadable(pixels) == [pixels |-> pixels, readable |-> FALSE, text |-> <<>>]
Upload(ct, decodable, images) ==
    [content_type |-> ct, decodable |-> decodable, images |-> images]

\* hashlib.sha256(PNG bytes of the image).hexdigest(): a digest of the pixels
Sha256Png(img) == [sha256_of_png |-> img.pixels]

\* "Name: John Doe\nRoll No: RU12345\nCertificate ID: RU/UG/2023/001"
ScenarioText ==
    KwName \o Colon \o Sp \o JohnDoe \o NL
    \o KwRollNo \o Colon \o Sp \o RU12345 \o NL
    \o KwCertificateID \o Colon \o Sp \o CertJohn
\* the same certificate printed without colons after the last two keywords
PlainText ==
    KwName \o Colon \o Sp \o JohnDoe \o NL
    \o KwRollNo \o Sp \o RU12345 \o NL
    \o KwCertificateID \o Sp \o CertJohn
\* Jane Smith's name with John Doe's roll number
MixedText ==
    KwName \o Colon \o Sp \o JaneSmith \o NL \o KwRollNo \o Sp \o RU12345
UnknownText == KwName \o Colon \o Sp \o <<"B","o","b">>

Uploads ==
    { Upload(CtPng, TRUE, <<Readable(1, ScenarioText)>>),
      Upload(CtPng, TRUE, <<Readable(2, PlainText)>>),
      Upload(CtPdf, TRUE, <<Readable(3, MixedText), Readable(2, PlainText)>>),
      Upload(CtPng, TRUE, <<Readable(4, UnknownText)>>),
      Upload(CtPng, TRUE, <<Readable(5, <<>>)>>),
      Upload(CtPng, TRUE, <<Unreadable(6)>>),
      Upload(CtPng, FALSE, <<>>),
      Upload(CtPdf, TRUE, <<>>),
      Upload(CtPlain, TRUE, <<>>),
      Upload(CtNone, TRUE, <<>>) }

(***************************************************************************)
(* State.                                                                  *)
(***************************************************************************)
Reqs == 1..NReq
Unset == [unset |-> TRUE]

VARIABLES
    \* the script: "init_db" (line 146), "start_api" (148-151), "serving"
    pc_main,
    \* the record store: os.path.exists(DB_FILE) and the rows of certificates
    db_exists, certificates,
    \* per request: position in verify_certificate and its locals
    pc, file, image, ocr_result, document_hash, name, roll_no, cert_id, db_result,
    anomalies, confidence_score, status, recommendation, response,
    \* one call of a field parser, run on its own: which process_certificate_ocr
    \* ("app" or "enhanced"), its position, its argument, its locals, its result
    fn, fn_pc, fn_image, text, lines, line_no, extracted_data, fn_return

store == <<db_exists, certificates>>
locals == <<file, image, ocr_result, document_hash, name, roll_no, cert_id, db_result,
            anomalies, confidence_score, status, recommendation, response>>
server == <<pc_main, store, pc, locals>>
parser == <<fn, fn_pc, fn_image, text, lines, line_no, extracted_data, fn_return>>
vars == <<server, parser>>

\* no parser call is being followed
NoParserCall ==
    /\ fn = "app"
    /\ fn_pc = "done"
    /\ fn_image = Unset
    /\ text = <<>>
    /\ lines = <<>>
    /\ line_no = 0
    /\ extracted_data = EmptyFields
    /\ fn_return = Unset

IdleRequests ==
    /\ pc = [r \in Reqs |-> "idle"]
    /\ file = [r \in Reqs |-> Unset]
    /\ image = [r \in Reqs |-> Unset]
    /\ ocr_result = [r \in Reqs |-> Unset]
    /\ document_hash = [r \in Reqs |-> Unset]
    /\ name = [r \in Reqs |-> <<>>]
    /\ roll_no = [r \in Reqs |-> <<>>]
    /\ cert_id = [r \in Reqs |-> <<>>]
    /\ db_result = [r \in Reqs |-> Unset]
    /\ anomalies = [r \in Reqs |-> <<>>]
    /\ confidence_score = [r \in Reqs |-> 0]
    /\ status = [r \in Reqs |-> ""]
    /\ recommendation = [r \in Reqs |-> ""]
    /\ response = [r \in Reqs |-> Unset]

\* the script starts with the database file absent, or left by an earlier run
Init ==
    /\ pc_main = "init_db"
    /\ db_exists \in BOOLEAN
    /\ certificates = IF db_exists THEN SeedRows ELSE {}
    /\ IdleRequests
    /\ NoParserCall

(***************************************************************************)
(* The script, app.py lines 146-151.                                       *)
(***************************************************************************)
\* init_db(), lines 23-37: creates and seeds the table unless the file exists
init_db ==
    /\ pc_main = "init_db"
    /\ IF ~db_exists
       THEN db_exists' = TRUE /\ certificates' = SeedRows
       ELSE UNCHANGED store
    /\ pc_main' = "start_api"
    /\ UNCHANGED <<pc, locals, parser>>

\* the API thread is started once init_db has returned, lines 148-151
run_api ==
    /\ pc_main = "start_api"
    /\ pc_main' = "serving"
    /\ UNCHANGED <<store, pc, locals, parser>>

(***************************************************************************)
(* verify_certificate, app.py lines 66-125, one action per block.          *)
(***************************************************************************)
Goto(r, label) == pc' = [pc EXCEPT ![r] = label]

\* a return of the handler: the response is set and the request is over
Return(r, resp) ==
    /\ response' = [response EXCEPT ![r] = resp]
    /\ Goto(r, "done")

\* lines 124-125: except Exception as e -> 500
Except(r, e) == Return(r, ErrorResponse(500, e))

\* line 69: contents = await file.read()
Receive(r) ==
    /\ pc_main = "serving"
    /\ pc[r] = "idle"
    /\ \E u \in Uploads : file' = [file EXCEPT ![r] = u]
    /\ Goto(r, "decode")
    /\ UNCHANGED <<parser, pc_main, store, image, ocr_result, document_hash, name, roll_no,
                   cert_id, db_result, anomalies, confidence_score, status,
                   recommendation, response>>

\* mutant: no `if not image` test, a PDF of zero pages goes on with image None
DecodeOutcomeNoEmptyCheck(f) ==
    IF f.content_type.is_none
    THEN [returned |-> TRUE, response |-> ErrorResponse(500, "AttributeError")]
    ELSE IF OccursAt(f.content_type.str, PrefixImage, 1)
    THEN IF ~f.decodable
         THEN [returned |-> TRUE, response |-> ErrorResponse(500, "UnidentifiedImageError")]
         ELSE [returned |-> FALSE, image |-> f.images[1]]
    ELSE IF f.content_type = CtPdf
    THEN IF ~f.decodable
         THEN [returned |-> TRUE, response |-> ErrorResponse(500, "PDFSyntaxError")]
         ELSE IF f.images = <<>>
         THEN [returned |-> FALSE, image |-> Unreadable(0)]
         ELSE [returned |-> FALSE, image |-> f.images[1]]
    ELSE [returned |-> TRUE, response |-> ErrorResponse(400, "Unsupported file type")]

\* lines 70-78: what decoding the upload gives, a page image or a response
DecodeOutcome(f) ==
    IF f.content_type.is_none
    THEN [returned |-> TRUE, response |-> ErrorResponse(500, "AttributeError")]
    ELSE IF OccursAt(f.content_type.str, PrefixImage, 1)
    THEN IF ~f.decodable
         THEN [returned |-> TRUE, response |-> ErrorResponse(500, "UnidentifiedImageError")]
         ELSE [returned |-> FALSE, image |-> f.images[1]]
    ELSE IF f.content_type = CtPdf
    THEN IF ~f.decodable
         THEN [returned |-> TRUE, response |-> ErrorResponse(500, "PDFSyntaxError")]
         ELSE IF f.images = <<>>
         THEN [returned |-> TRUE, response |-> ErrorResponse(400, "No image extracted")]
         ELSE [returned |-> FALSE, image |-> f.images[1]]
    ELSE [returned |-> TRUE, response |-> ErrorResponse(400, "Unsupported file type")]

Decode(r) ==
    /\ pc[r] = "decode"
    /\ LET d == DecodeOutcome(file[r])
       IN  IF d.returned
           THEN Return(r, d.response) /\ UNCHANGED image
           ELSE /\ image' = [image EXCEPT ![r] = d.image]
                /\ Goto(r, "ocr")
                /\ UNCHANGED response
    /\ UNCHANGED <<parser, pc_main, store, file, ocr_result, document_hash, name, roll_no,
                   cert_id, db_result, anomalies, confidence_score, status,
                   recommendation>>

\* line 80: ocr_result = process_certificate_ocr(image), the function of app.py
Ocr(r) ==
    /\ pc[r] = "ocr"
    /\ LET res == app_process_certificate_ocr(image[r])
       IN  IF res.raised
           THEN Except(r, res.exception) /\ UNCHANGED ocr_result
           ELSE /\ ocr_result' = [ocr_result EXCEPT ![r] = res.value]
                /\ Goto(r, "hash")
                /\ UNCHANGED response
    /\ UNCHANGED <<parser, pc_main, store, file, image, document_hash, name, roll_no,
                   cert_id, db_result, anomalies, confidence_score, status,
                   recommendation>>

\* lines 82-84
Hash(r) ==
    /\ pc[r] = "hash"
    /\ document_hash' = [document_hash EXCEPT ![r] = Sha256Png(image[r])]
    /\ Goto(r, "lookup")
    /\ UNCHANGED <<parser, pc_main, store, file, image, ocr_result, name, roll_no,
                   cert_id, db_result, anomalies, confidence_score, status,
                   recommendation, response>>

\* mutant: the lookup uses the record up, deleting the row it found
LookupConsumes(r) ==
    /\ pc[r] = "lookup"
    /\ LET extracted == ocr_result[r].extracted_data
       IN  /\ name' = [name EXCEPT ![r] = Strip(Get(extracted, "name"))]
           /\ roll_no' = [roll_no EXCEPT ![r] = Strip(Get(extracted, "roll_no"))]
           /\ cert_id' = [cert_id EXCEPT ![r] = Strip(Get(extracted, "cert_id"))]
    /\ db_result' = [db_result EXCEPT ![r] = query_db(certificates, name'[r])]
    /\ certificates' = {row \in certificates : row.name # name'[r]}
    /\ Goto(r, "begin")
    /\ UNCHANGED <<parser, pc_main, db_exists, file, image, ocr_result, document_hash,
                   anomalies, confidence_score, status, recommendation, response>>

\* lines 86-91: the stripped fields, and the record of the stripped name
Lookup(r) ==
    /\ pc[r] = "lookup"
    /\ LET extracted == ocr_result[r].extracted_data
       IN  /\ name' = [name EXCEPT ![r] = Strip(Get(extracted, "name"))]
           /\ roll_no' = [roll_no EXCEPT ![r] = Strip(Get(extracted, "roll_no"))]
           /\ cert_id' = [cert_id EXCEPT ![r] = Strip(Get(extracted, "cert_id"))]
    /\ db_result' = [db_result EXCEPT ![r] = query_db(certificates, name'[r])]
    /\ Goto(r, "begin")
    /\ UNCHANGED <<parser, pc_main, store, file, image, ocr_result, document_hash,
                   anomalies, confidence_score, status, recommendation, response>>

Verdict(r) ==
    [anomalies |-> anomalies[r],
     confidence_score |-> confidence_score[r],
     status |-> status[r],
     recommendation |-> recommendation[r]]

SetVerdict(r, v) ==
    /\ anomalies' = [anomalies EXCEPT ![r] = v.anomalies]
    /\ confidence_score' = [confidence_score EXCEPT ![r] = v.confidence_score]
    /\ status' = [status EXCEPT ![r] = v.status]
    /\ recommendation' = [recommendation EXCEPT ![r] = v.recommendation]

\* lines 93-96
Begin(r) ==
    /\ pc[r] = "begin"
    /\ SetVerdict(r, InitialVerdict(ocr_result[r]))
    /\ Goto(r, "branch")
    /\ UNCHANGED <<parser, pc_main, store, file, image, ocr_result, document_hash, name,
                   roll_no, cert_id, db_result, response>>

\* lines 98-109
Branch(r) ==
    /\ pc[r] = "branch"
    /\ SetVerdict(r, BranchVerdict(Verdict(r), db_result[r], roll_no[r], cert_id[r]))
    /\ Goto(r, "lowconf")
    /\ UNCHANGED <<parser, pc_main, store, file, image, ocr_result, document_hash, name,
                   roll_no, cert_id, db_result, response>>

\* lines 111-112
LowConf(r) ==
    /\ pc[r] = "lowconf"
    /\ SetVerdict(r, LowConfidenceVerdict(Verdict(r)))
    /\ Goto(r, "respond")
    /\ UNCHANGED <<parser, pc_main, store, file, image, ocr_result, document_hash, name,
                   roll_no, cert_id, db_result, response>>

\* lines 114-123
Respond(r) ==
    /\ pc[r] = "respond"
    /\ Return(r, Report(Verdict(r), ocr_result[r], document_hash[r]))
    /\ UNCHANGED <<parser, pc_main, store, file, image, ocr_result, document_hash, name,
                   roll_no, cert_id, db_result, anomalies, confidence_score, status,
                   recommendation>>

Next ==
    \/ init_db
    \/ run_api
    \/ \E r \in Reqs :
          \/ Receive(r)
          \/ Decode(r)
          \/ Ocr(r)
          \/ Hash(r)
          \/ Lookup(r)
          \/ Begin(r)
          \/ Branch(r)
          \/ LowConf(r)
          \/ Respond(r)

Spec == Init /\ [][Next]_vars

(***************************************************************************)
(* The decision procedure on its own: one call of lines 86-123 whose       *)
(* ocr_result is drawn from FieldInputs (any of a set of field values,     *)
(* any confidence) and from what the two field parsers return for the      *)
(* sample texts, with the confidence they report ranging over              *)
(* 0..MaxConfidence; the record store is the seeded one.                   *)
(***************************************************************************)
Confidences == 0..MaxConfidence

NameValues ==
    { <<>>, JohnDoe, JaneSmith, Sp \o JohnDoe \o Sp,
      <<"j","o","h","n"," ","d","o","e">>, <<"B","o","b">> }
RollValues ==
    { <<>>, RU12345, RU54321, Sp \o RU12345 \o Sp,
      <<"r","u","1","2","3","4","5">>, Colon \o Sp \o RU12345 }
CertValues == { <<>>, CertJohn, CertJane, Sp \o CertJohn }

SampleTexts == { ScenarioText, PlainText, MixedText, UnknownText, <<>> }

FieldInputs ==
    { [extracted_data |-> [name |-> n, roll_no |-> ro, cert_id |-> c],
       ocr_confidence |-> k,
       full_text |-> <<>>] :
          n \in NameValues, ro \in RollValues, c \in CertValues, k \in Confidences }

AppParsed(t, k) ==
    [AppResult(AppLoop(EmptyFields, Split(t, NL), 1), t) EXCEPT !.ocr_confidence = k]
EnhParsed(t, k) ==
    [EnhResult(EnhLoop(EmptyFields, Split(t, NL), 1), t) EXCEPT !.ocr_confidence = k]

ParsedInputs ==
    {AppParsed(t, k) : t \in SampleTexts, k \in Confidences}
    \cup {EnhParsed(t, k) : t \in SampleTexts, k \in Confidences}

InitVerify ==
    /\ pc_main = "serving"
    /\ db_exists = TRUE
    /\ certificates = SeedRows
    /\ pc = [r \in Reqs |-> IF r = 1 THEN "lookup" ELSE "idle"]
    /\ file = [r \in Reqs |-> Unset]
    /\ image = [r \in Reqs |-> Unset]
    /\ \E x \in FieldInputs \cup ParsedInputs \cup {EnhFailure("TesseractError")} :
          ocr_result = [r \in Reqs |-> IF r = 1 THEN x ELSE Unset]
    /\ document_hash = [r \in Reqs |-> IF r = 1 THEN Sha256Png(Readable(0, <<>>)) ELSE Unset]
    /\ name = [r \in Reqs |-> <<>>]
    /\ roll_no = [r \in Reqs |-> <<>>]
    /\ cert_id = [r \in Reqs |-> <<>>]
    /\ db_result = [r \in Reqs |-> Unset]
    /\ anomalies = [r \in Reqs |-> <<>>]
    /\ confidence_score = [r \in Reqs |-> 0]
    /\ status = [r \in Reqs |-> ""]
    /\ recommendation = [r \in Reqs |-> ""]
    /\ response = [r \in Reqs |-> Unset]
    /\ NoParserCall

NextVerify ==
    \/ Lookup(1)
    \/ Begin(1)
    \/ Branch(1)
    \/ LowConf(1)
    \/ Respond(1)

SpecVerify == InitVerify /\ [][NextVerify]_vars

(***************************************************************************)
(* Properties of the decision procedure (SpecVerify).                      *)
(***************************************************************************)
\* request r has returned a verification report
Reported(r) == pc[r] = "done" /\ response[r].status_code = 200
ReportOf(r) == response[r].content
Has(xs, x) == \E i \in 1..Len(xs) : xs[i] = x
\* the fields the handler compares: the extracted ones, trimmed
TrimmedField(r, key) == Strip(Get(ocr_result[r].extracted_data, key))

\* C1 as stated: in every report, status is Valid if and only if the
\* anomalies list is empty.
C1_ValidIffNoAnomalies ==
    \A r \in Reqs :
        Reported(r) => (ReportOf(r).status = "Valid" <=> ReportOf(r).anomalies = <<>>)

\* C1 as amended: in every report, status is Valid if and only if the
\* anomalies list holds neither the mismatch nor the name-not-found anomaly;
\* a Valid report's list is empty or holds the low-confidence anomaly alone.
C1_ValidIffNoRecordAnomaly ==
    \A r \in Reqs :
        Reported(r) =>
            /\ ReportOf(r).status = "Valid"
                  <=> /\ ~Has(ReportOf(r).anomalies, AnomalyMismatch)
                      /\ ~Has(ReportOf(r).anomalies, AnomalyNotFound)
            /\ ReportOf(r).status = "Valid"
                  => ReportOf(r).anomalies \in {<<>>, <<AnomalyLowConfidence>>}
            /\ ReportOf(r).anomalies = <<>> => ReportOf(r).status = "Valid"

\* a Valid report with a non-empty anomalies list, and one with an empty list
C1_Witness ==
    /\ Reported(1)
    /\ ReportOf(1).status = "Valid"
    /\ ReportOf(1).anomalies = <<AnomalyLowConfidence>>
    /\ db_result[1].found

\* C2: the report for the end-to-end scenario (the scenario text through
\* app.py's field parser, OCR confidence 85, the seeded store) has status
\* Valid, confidence score 85, no anomalies and the recommendation to proceed.
C2_EndToEnd ==
    \A r \in Reqs :
        Reported(r) /\ ocr_result[r] = AppParsed(ScenarioText, 85) =>
            /\ ReportOf(r).status = "Valid"
            /\ ReportOf(r).confidence_score = 85
            /\ ReportOf(r).anomalies = <<>>
            /\ ReportOf(r).recommendation = "Proceed with verification."

\* C3: a name the store does not hold, the empty name included, gives a
\* Forged report with score at most 30, the invalid-document recommendation
\* and the name-not-found anomaly.
C3_NotFoundIsForged ==
    \A r \in Reqs :
        /\ db_result[r] # Unset /\ TrimmedField(r, "name") = <<>> => ~db_result[r].found
        /\ Reported(r) /\ ~db_result[r].found =>
              /\ ReportOf(r).status = "Forged"
              /\ ReportOf(r).confidence_score <= 30
              /\ ReportOf(r).recommendation = "Document appears invalid."
              /\ Has(ReportOf(r).anomalies, AnomalyNotFound)

\* a Forged report for the empty name at an OCR confidence above 30
C3_Witness ==
    /\ Reported(1)
    /\ TrimmedField(1, "name") = <<>>
    /\ ~db_result[1].found
    /\ ocr_result[1].ocr_confidence > 30
    /\ ReportOf(1).status = "Forged"

\* C4: with the name found, a trimmed roll number or certificate ID that
\* differs from the record's gives Caution, score at most 60 and the mismatch
\* anomaly; both equal gives Valid, the OCR confidence as score and no
\* mismatch anomaly.
C4_FoundMatchOrMismatch ==
    \A r \in Reqs :
        Reported(r) /\ db_result[r].found =>
            IF \/ TrimmedField(r, "roll_no") # db_result[r].roll_no
               \/ TrimmedField(r, "cert_id") # db_result[r].cert_id
            THEN /\ ReportOf(r).status = "Caution"
                 /\ ReportOf(r).confidence_score <= 60
                 /\ Has(ReportOf(r).anomalies, AnomalyMismatch)
            ELSE /\ ReportOf(r).status = "Valid"
                 /\ ReportOf(r).confidence_score = ocr_result[r].ocr_confidence
                 /\ ~Has(ReportOf(r).anomalies, AnomalyMismatch)

\* a Caution report where only the certificate ID differs
C4_Witness ==
    /\ Reported(1)
    /\ db_result[1].found
    /\ TrimmedField(1, "roll_no") = db_result[1].roll_no
    /\ TrimmedField(1, "cert_id") # db_result[1].cert_id
    /\ ReportOf(1).status = "Caution"

\* C5: the low-confidence anomaly is in the report exactly when the final
\* score is below 70, whatever the status, and the step that appends it
\* leaves status and recommendation as they were.
C5_LowConfidenceAnomaly ==
    /\ [](\A r \in Reqs :
            Reported(r) =>
                (Has(ReportOf(r).anomalies, AnomalyLowConfidence)
                    <=> ReportOf(r).confidence_score < 70))
    /\ [][\A r \in Reqs :
            pc[r] = "lowconf" /\ pc'[r] = "respond" =>
                /\ status'[r] = status[r]
                /\ recommendation'[r] = recommendation[r]
                /\ confidence_score'[r] = confidence_score[r]]_vars

\* a Caution report whose OCR confidence was 70 or more and whose clamped
\* score put the low-confidence anomaly in
C5_Witness ==
    /\ Reported(1)
    /\ ocr_result[1].ocr_confidence >= 70
    /\ ReportOf(1).status = "Caution"
    /\ Has(ReportOf(1).anomalies, AnomalyLowConfidence)

\* C10: a Caution or Forged report carries exactly two anomalies, its own
\* first and the low-confidence one second; every report's score lies between
\* 0 and the OCR confidence.
C10_TwoAnomaliesAndScoreRange ==
    \A r \in Reqs :
        Reported(r) =>
            /\ ReportOf(r).status = "Caution"
                  => ReportOf(r).anomalies = <<AnomalyMismatch, AnomalyLowConfidence>>
            /\ ReportOf(r).status = "Forged"
                  => ReportOf(r).anomalies = <<AnomalyNotFound, AnomalyLowConfidence>>
            /\ 0 <= ReportOf(r).confidence_score
            /\ ReportOf(r).confidence_score <= ocr_result[r].ocr_confidence

\* a Caution report at the highest OCR confidence
C10_Witness ==
    /\ Reported(1)
    /\ ocr_result[1].ocr_confidence = MaxConfidence
    /\ ReportOf(1).status = "Caution"
    /\ Len(ReportOf(1).anomalies) = 2

(***************************************************************************)
(* Properties of the server (Spec).                                        *)
(***************************************************************************)
\* verify_certificate run from start to end on upload f against the seeded
\* store: its response
RunAlone(f) ==
    LET d == DecodeOutcome(f)
    IN  IF d.returned THEN d.response
        ELSE LET o == app_process_certificate_ocr(d.image)
             IN  IF o.raised THEN ErrorResponse(500, o.exception)
                 ELSE LET extracted == o.value.extracted_data
                          row == query_db(SeedRows, Strip(Get(extracted, "name")))
                          v == LowConfidenceVerdict(
                                   BranchVerdict(InitialVerdict(o.value), row,
                                                 Strip(Get(extracted, "roll_no")),
                                                 Strip(Get(extracted, "cert_id"))))
                      IN  Report(v, o.value, Sha256Png(d.image))

\* the upload is neither an image nor a PDF, or is a PDF of zero pages
Unsupported(f) ==
    \/ f.content_type.is_none
    \/ /\ ~OccursAt(f.content_type.str, PrefixImage, 1)
       /\ f.content_type # CtPdf
    \/ /\ f.content_type = CtPdf
       /\ f.decodable
       /\ f.images = <<>>

\* C7: a request whose text extraction fails still ends with a report: all
\* fields empty, status Forged, the name-not-found anomaly, no error response.
C7_ExtractionFailureFallsBack ==
    \A r \in Reqs :
        pc[r] = "done" /\ image[r] # Unset /\ ~image[r].readable =>
            /\ Reported(r)
            /\ ReportOf(r).status = "Forged"
            /\ Has(ReportOf(r).anomalies, AnomalyNotFound)

\* C8: an unsupported upload is answered with an error response at the
\* decoding step; text extraction, hashing, lookup and the decision procedure
\* never run for it and it gets no report.
C8_UnsupportedRejectedFirst ==
    \A r \in Reqs :
        file[r] # Unset /\ Unsupported(file[r]) =>
            /\ pc[r] \in {"decode", "done"}
            /\ image[r] = Unset
            /\ ocr_result[r] = Unset
            /\ document_hash[r] = Unset
            /\ db_result[r] = Unset
            /\ status[r] = ""
            /\ anomalies[r] = <<>>
            /\ pc[r] = "done" =>
                  /\ response[r].status_code \in {400, 500}
                  /\ DOMAIN response[r].content = {"error"}

\* a zero-page PDF has been rejected
C8_Witness ==
    /\ pc[1] = "done"
    /\ file[1].content_type = CtPdf
    /\ file[1].images = <<>>
    /\ response[1] = ErrorResponse(400, "No image extracted")

\* C9: whatever the interleaving, a finished request's response is the one
\* the handler gives its upload when run alone, and the requests leave the
\* record store as init_db made it.
C9_RequestsIndependent ==
    /\ pc_main = "serving" => db_exists /\ certificates = SeedRows
    /\ \A r \in Reqs : pc[r] = "done" => response[r] = RunAlone(file[r])

\* two requests for the same name: one has its report while the other is
\* between its lookup and its decision
C9_Witness ==
    /\ Reported(1)
    /\ pc[2] = "branch"
    /\ name[1] = JohnDoe
    /\ name[2] = JohnDoe
    /\ file[1] # file[2]

(***************************************************************************)
(* The field parsers on their own: one call of either                      *)
(* process_certificate_ocr, followed line by line, on an image whose text  *)
(* is a sample text or a concatenation of at most MaxPieces pieces.        *)
(***************************************************************************)
Pieces == { KwName, Colon, Sp, <<"A">>, NL, KwRoll }

RECURSIVE Texts(_)
Texts(n) ==
    IF n = 0 THEN {<<>>}
    ELSE LET shorter == Texts(n - 1)
         IN  shorter \cup {t \o p : t \in shorter, p \in Pieces}

ParserImages ==
    {Readable(0, t) : t \in Texts(MaxPieces) \cup SampleTexts} \cup {Unreadable(0)}

InitParse ==
    /\ pc_main = "init_db"
    /\ db_exists = FALSE
    /\ certificates = {}
    /\ IdleRequests
    /\ fn \in {"app", "enhanced"}
    /\ fn_pc = "ocr"
    /\ fn_image \in ParserImages
    /\ text = <<>>
    /\ lines = <<>>
    /\ line_no = 0
    /\ extracted_data = EmptyFields
    /\ fn_return = Unset

\* app.py lines 49-55; a failing OCR call raises out of the function
AppOcr ==
    /\ fn = "app" /\ fn_pc = "ocr"
    /\ IF ~fn_image.readable
       THEN /\ fn_return' = Raised("TesseractError")
            /\ fn_pc' = "done"
            /\ UNCHANGED <<text, lines>>
       ELSE /\ text' = fn_image.text
            /\ lines' = Split(fn_image.text, NL)
            /\ fn_pc' = "loop"
            /\ UNCHANGED fn_return
    /\ extracted_data' = EmptyFields
    /\ UNCHANGED <<server, fn, fn_image, line_no>>

\* app.py lines 56-62, one line of the loop; line_no lines are done
AppStep ==
    /\ fn = "app" /\ fn_pc = "loop"
    /\ line_no < Len(lines)
    /\ extracted_data' = AppLine(extracted_data, lines[line_no + 1])
    /\ line_no' = line_no + 1
    /\ UNCHANGED <<server, fn, fn_pc, fn_image, text, lines, fn_return>>

\* app.py lines 63-64
AppReturn ==
    /\ fn = "app" /\ fn_pc = "loop"
    /\ line_no = Len(lines)
    /\ fn_return' = Returned(AppResult(extracted_data, text))
    /\ fn_pc' = "done"
    /\ UNCHANGED <<server, fn, fn_image, text, lines, line_no, extracted_data>>

\* jacvs_ocr_enhanced.py lines 9-21; a failing OCR call goes to the except branch
EnhOcr ==
    /\ fn = "enhanced" /\ fn_pc = "ocr"
    /\ IF ~fn_image.readable
       THEN /\ fn_pc' = "except"
            /\ UNCHANGED <<text, lines>>
       ELSE /\ text' = fn_image.text
            /\ lines' = Split(fn_image.text, NL)
            /\ fn_pc' = "loop"
    /\ extracted_data' = EmptyFields
    /\ UNCHANGED <<server, fn, fn_image, line_no, fn_return>>

\* jacvs_ocr_enhanced.py lines 22-30, one line of the loop
EnhStep ==
    /\ fn = "enhanced" /\ fn_pc = "loop"
    /\ line_no < Len(lines)
    /\ extracted_data' = EnhLine(extracted_data, lines[line_no + 1])
    /\ line_no' = line_no + 1
    /\ UNCHANGED <<server, fn, fn_pc, fn_image, text, lines, fn_return>>

\* jacvs_ocr_enhanced.py lines 32-37
EnhReturn ==
    /\ fn = "enhanced" /\ fn_pc = "loop"
    /\ line_no = Len(lines)
    /\ fn_return' = Returned(EnhResult(extracted_data, text))
    /\ fn_pc' = "done"
    /\ UNCHANGED <<server, fn, fn_image, text, lines, line_no, extracted_data>>

\* jacvs_ocr_enhanced.py lines 39-45
EnhExcept ==
    /\ fn = "enhanced" /\ fn_pc = "except"
    /\ fn_return' = Returned(EnhFailure("TesseractError"))
    /\ fn_pc' = "done"
    /\ UNCHANGED <<server, fn, fn_image, text, lines, line_no, extracted_data>>

NextParse ==
    \/ AppOcr
    \/ AppStep
    \/ AppReturn
    \/ EnhOcr
    \/ EnhStep
    \/ EnhReturn
    \/ EnhExcept

SpecParse == InitParse /\ [][NextParse]_vars

(***************************************************************************)
(* Properties of the field parsers (SpecParse).                            *)
(***************************************************************************)
\* the call followed line by line returns what the parser operators compute
ParserCallAgrees ==
    fn_pc = "done" =>
        fn_return = IF fn = "app" THEN app_process_certificate_ocr(fn_image)
                    ELSE enhanced_process_certificate_ocr(fn_image)

\* the line the loop has just processed
LineDone == fn_pc \in {"loop", "done"} /\ line_no >= 1
CurrentLine == lines[line_no]

\* the text of s after the first, and after the last, occurrence of sep
AfterFirst(s, sep) == SubSeq(s, Find(s, sep) + Len(sep), Len(s))
AfterLast(s, sep) ==
    LET hits == {i \in 1..Len(s) : OccursAt(s, sep, i)}
        k == CHOOSE i \in hits : \A j \in hits : i >= j
    IN  SubSeq(s, k + Len(sep), Len(s))

\* C6 as stated: after a line that contains "Name" and a colon, name is the
\* trimmed text after the FIRST colon of the line (colon-split parser).
C6_NameAfterFirstColon ==
    LineDone /\ fn = "enhanced"
        /\ Contains(KwName, CurrentLine) /\ Contains(Colon, CurrentLine)
    => extracted_data.name = Strip(AfterFirst(CurrentLine, Colon))

\* C6 as amended: after a line that contains "Name" and a colon, the
\* colon-split parser's name is the trimmed text after the LAST colon of the
\* line; app.py's parser sets name on the lines that contain "Name:", to the
\* trimmed text after the last "Name:".
C6_NameAfterLastColon ==
    /\ LineDone /\ fn = "enhanced"
          /\ Contains(KwName, CurrentLine) /\ Contains(Colon, CurrentLine)
       => extracted_data.name = Strip(AfterLast(CurrentLine, Colon))
    /\ LineDone /\ fn = "app" /\ Contains(KwNameColon, CurrentLine)
       => extracted_data.name = Strip(AfterLast(CurrentLine, KwNameColon))

\* the colon-split parser has read a name off a line with two colons, the
\* first of them before the keyword
C6_Witness ==
    /\ LineDone /\ fn = "enhanced"
    /\ Contains(KwName, CurrentLine)
    /\ Len(Split(CurrentLine, Colon)) >= 3
    /\ extracted_data.name # <<>>
    /\ extracted_data.name # Strip(AfterFirst(CurrentLine, Colon))

====
